---- MODULE Spec2Model ----
(***************************************************************************)
(* Model of app/services/file_lock_service.py: the per-path reentrant      *)
(* mutex registry, the file_lock scope, and the JSON read / write / update *)
(* operations built on them, run by several threads of one process.        *)
(***************************************************************************)
EXTENDS Integers, Sequences, FiniteSets, TLC

\* ------------------------------------------------------------------ bounds
\* calls per thread, the length of a mutex wait in clock ticks, the size of a
\* document's containers
MaxOps == 1
TimeoutTicks == 1
MaxLen == 1

\* two worker threads of the one server process
Threads == {1, 2}
NoThread == 0

\* ------------------------------------------------------- python values
PyNone == <<"none">>
PyBool(b) == <<"bool", b>>
PyInt(n) == <<"int", n>>
PyStr(s) == <<"str", s>>
PyNaN == <<"float", "nan">>
PyList(s) == <<"list", s>>
PyTuple(s) == <<"tuple", s>>
PyDict(f) == <<"dict", f>>
PyObject == <<"object", "set">>

\* ---------------------------------------------------------- json texts
JNull == <<"null">>
JBool(b) == <<"boolean", b>>
JNum(n) == <<"number", n>>
JStr(s) == <<"string", s>>
JNaN == <<"NaN">>
JArr(s) == <<"array", s>>
JObj(f) == <<"object", f>>

IntStr(n) == CASE n = 0 -> "0" [] n = 1 -> "1" [] n = 2 -> "2" [] OTHER -> "n"

\* json.dump turns every dict key into a JSON string
KeyName(k) == IF k[1] = "int" THEN IntStr(k[2]) ELSE k[2]

RECURSIVE Serializable(_)
Serializable(v) ==
  CASE v[1] \in {"list", "tuple"} -> \A i \in 1..Len(v[2]) : Serializable(v[2][i])
    [] v[1] = "dict" -> \A k \in DOMAIN v[2] : Serializable(v[2][k])
    [] v[1] = "object" -> FALSE
    [] OTHER -> TRUE

RECURSIVE ToJson(_)
ToJson(v) ==
  CASE v[1] = "none" -> JNull
    [] v[1] = "bool" -> JBool(v[2])
    [] v[1] = "int" -> JNum(v[2])
    [] v[1] = "str" -> JStr(v[2])
    [] v[1] = "float" -> JNaN
    [] v[1] \in {"list", "tuple"} -> JArr([i \in 1..Len(v[2]) |-> ToJson(v[2][i])])
    [] v[1] = "dict" ->
         JObj([n \in {KeyName(k) : k \in DOMAIN v[2]} |->
                 ToJson(v[2][CHOOSE k \in DOMAIN v[2] : KeyName(k) = n])])

RECURSIVE FromJson(_)
FromJson(j) ==
  CASE j[1] = "null" -> PyNone
    [] j[1] = "boolean" -> PyBool(j[2])
    [] j[1] = "number" -> PyInt(j[2])
    [] j[1] = "string" -> PyStr(j[2])
    [] j[1] = "NaN" -> PyNaN
    [] j[1] = "array" -> PyList([i \in 1..Len(j[2]) |-> FromJson(j[2][i])])
    [] j[1] = "object" -> PyDict([k \in {PyStr(n) : n \in DOMAIN j[2]} |-> FromJson(j[2][k[2]])])

RECURSIVE HasNaN(_)
HasNaN(v) ==
  CASE v[1] = "float" -> TRUE
    [] v[1] \in {"list", "tuple"} -> \E i \in 1..Len(v[2]) : HasNaN(v[2][i])
    [] v[1] = "dict" -> \E k \in DOMAIN v[2] : HasNaN(v[2][k])
    [] OTHER -> FALSE

\* Python's == on two distinct objects: nan never equals nan
PyEq(a, b) == a = b /\ ~HasNaN(a)

\* ------------------------------------------------------- file contents
Missing == <<"missing">>
EmptyText == <<"text", "">>
Garbage == <<"text", "{not json">>
Partial == <<"partial">>
Doc(j) == <<"doc", j>>

\* json.load: only a complete JSON text parses
Loads(text) ==
  IF text[1] = "doc" THEN <<"ok", FromJson(text[2])>> ELSE <<"err", "JSONDecodeError">>

\* what json.dump has put in the file after its first chunks
FirstChunks(v) ==
  IF v[1] \in {"list", "tuple", "dict"} /\ v[2] # <<>> THEN Partial ELSE EmptyText


\* ------------------------------------------------------------- paths
\* a path as pathlib holds it: the anchor ("/" when absolute, "" when relative),
\* the directory segments, and the final name split into stem and suffix

\* the working directory of the process, and the data folder inside it
Cwd == <<"app">>
DataFolder == Cwd \o <<"data">>

DataFile(stem, suffix) == [anchor |-> "/", parts |-> DataFolder, stem |-> stem, suffix |-> suffix]

\* the path the operations of the main specifications work on
Paths == {DataFile("classes", ".json")}

\* spellings of that one file, as a caller may write them:
\* /app/data/classes.json, data/classes.json, .//data/classes.json,
\* data/../data/classes.json
Spellings ==
  {[anchor |-> a, parts |-> s, stem |-> "classes", suffix |-> ".json"] :
     <<a, s>> \in {<<"/", DataFolder>>, <<"", <<"data">>>>, <<"", <<".", "", "data">>>>,
                   <<"", <<"data", "..", "data">>>>}}

\* two targets in one folder that differ in their extension only
Targets == {DataFile("classes", ".json"), DataFile("classes", ".bak")}

\* Path(...): redundant separators and "." segments are dropped, ".." is kept
Path(raw) == [raw EXCEPT !.parts = SelectSeq(@, LAMBDA s : s \notin {"", "."})]

\* Path.absolute: the working directory is put in front of a relative path,
\* nothing else is changed
absolute(p) == IF p.anchor = "/" THEN p ELSE [p EXCEPT !.anchor = "/", !.parts = Cwd \o @]

RECURSIVE Collapse(_)
Collapse(parts) ==
  IF \E i \in 1..Len(parts) : parts[i] = ".."
  THEN LET i == CHOOSE i \in 1..Len(parts) : parts[i] = ".." /\ \A j \in 1..(i - 1) : parts[j] # ".."
       IN Collapse(SubSeq(parts, 1, i - 2) \o SubSeq(parts, i + 1, Len(parts)))
  ELSE parts

\* the file the operating system reaches when handed the path (no symbolic links
\* in the data folder): relative to the working directory, ".." walked up
resolved(p) == [absolute(p) EXCEPT !.parts = Collapse(@)]

\* Path.with_suffix: the stem kept, the suffix replaced
with_suffix(p, s) == [p EXCEPT !.suffix = s]

temp_file(p) == with_suffix(p, ".tmp")

\* the files a set of paths leads to, with their temp files
FilesOf(P) == {resolved(p) : p \in P} \cup {resolved(temp_file(p)) : p \in P}

Files == FilesOf(Paths)

\* the registry key of a path: str(file_path.absolute())
file_key(p) == absolute(p)

\* ------------------------------------------------------------- state
VARIABLES
  fs,             \* the disk: file -> content, or Missing
  memory_locks,   \* _memory_locks: key -> RLock state (owner, recursion count)
  lock_stats,     \* acquired / conflicts / timeouts
  pc,             \* where each thread stands in its current call
  op,             \* the call a thread is running
  data,           \* local: the document read / the document to write
  exc,            \* local: the exception caught inside the call, or NoErr
  ret,            \* local: what the call is about to hand to its caller
  file_handle,    \* local of file_lock: the handle is open
  lock_acquired,  \* local of file_lock
  sys,            \* the OS advisory lock of the handle: none / held / degraded
  waited,         \* time spent so far in memory_lock.acquire(timeout)
  nops            \* how many calls a thread has completed

vars == <<fs, memory_locks, lock_stats, pc, op, data, exc, ret, file_handle,
          lock_acquired, sys, waited, nops>>

NoErr == "none"
Return(v) == <<"return", v>>
Raise(e) == <<"raise", e>>
NoRet == <<"running">>

FreeLock == [owner |-> NoThread, count |-> 0]

NoCall == [kind |-> "none", path |-> CHOOSE p \in Paths : TRUE, arg |-> PyNone]

Marker(t, k) == PyInt(10 * t + k)

\* ------------------------------------------------------------- calls
ReadCalls == {[kind |-> "read", path |-> p, arg |-> d] : p \in Paths, d \in {PyList(<<>>)}}

WriteValues == {PyList(<<PyInt(0)>>), PyList(<<PyObject>>)}

WriteCalls == {[kind |-> "write", path |-> p, arg |-> v] : p \in Paths, v \in WriteValues}

AppendCalls(m) == {[kind |-> "update", path |-> p, arg |-> <<"append", m>>] : p \in Paths}

UpdateCalls ==
  AppendCalls(PyInt(0)) \cup
  {[kind |-> "update", path |-> p, arg |-> <<f, PyNone>>] : p \in Paths, f \in {"raise", "bad"}}

LockCalls ==
  {[kind |-> "lock", path |-> p, arg |-> <<"body", b>>] : p \in Paths, b \in {"ok", "raise"}}

\* update_func(data): the transforms callers pass to safe_json_update
update_func(f, d) ==
  CASE f[1] = "append" ->
         IF d[1] = "list" THEN <<"ok", PyList(Append(d[2], f[2]))>>
         ELSE <<"err", "AttributeError">>
    [] f[1] = "raise" -> <<"err", "ValueError">>
    [] f[1] = "bad" -> <<"ok", PyList(<<PyObject>>)>>

\* -------------------------------------------------------- the registry
\* faulty variant: the entry is set without looking whether the path has one
get_memory_lock_unchecked(locks, p) ==
  [k \in DOMAIN locks \cup {file_key(p)} |-> IF k = file_key(p) THEN FreeLock ELSE locks[k]]

\* _get_memory_lock: the entry is created on first use and then kept
get_memory_lock(locks, p) ==
  IF file_key(p) \in DOMAIN locks THEN locks
  ELSE [k \in DOMAIN locks \cup {file_key(p)} |->
          IF k \in DOMAIN locks THEN locks[k] ELSE FreeLock]

\* faulty variant: a fresh lock per call instead of the one registered for the path
can_acquire_any(l, t) == TRUE

\* faulty variant: a plain Lock, which its own holder cannot take again
can_acquire_free(l, t) == l.owner = NoThread

\* faulty variant: readers share the path, only mutations wait for the mutex
can_acquire_shared(l, t) == l.owner \in {NoThread, t} \/ op[t].kind = "read"

\* RLock.acquire succeeds at once when the lock is free or owned by the caller
can_acquire(l, t) == l.owner \in {NoThread, t}

acquire(l, t) == [owner |-> t, count |-> l.count + 1]

\* faulty variant: a plain Lock, which any thread can release
release_any(l, t) ==
  IF l.count <= 1 THEN FreeLock ELSE [l EXCEPT !.count = l.count - 1]

\* RLock.release by a thread that does not own it raises RuntimeError
release(l, t) ==
  IF l.owner = t
  THEN IF l.count = 1 THEN FreeLock ELSE [l EXCEPT !.count = l.count - 1]
  ELSE l

Bump(stats, field) == [stats EXCEPT ![field] = stats[field] + 1]

ValueToWrite(t) == IF op[t].kind = "write" THEN op[t].arg ELSE data[t]

\* faulty variant: the existence check is left out
exists_unchecked(p) == TRUE

\* Path.exists
exists(p) == fs[resolved(p)] # Missing

InitialContents == {Missing, Doc(JArr(<<>>)), Garbage}

\* the service just constructed, no thread inside a call
NothingRunning ==
  /\ memory_locks = [k \in {} |-> FreeLock]
  /\ lock_stats = [acquired |-> 0, conflicts |-> 0, timeouts |-> 0]
  /\ pc = [t \in Threads |-> "idle"]
  /\ op = [t \in Threads |-> NoCall]
  /\ data = [t \in Threads |-> PyNone]
  /\ exc = [t \in Threads |-> NoErr]
  /\ ret = [t \in Threads |-> NoRet]
  /\ file_handle = [t \in Threads |-> FALSE]
  /\ lock_acquired = [t \in Threads |-> FALSE]
  /\ sys = [t \in Threads |-> "none"]
  /\ waited = [t \in Threads |-> 0]
  /\ nops = [t \in Threads |-> 0]

\* the disk when the process starts: a set of files, one of them there already
Disk(F) == {[f \in F |-> IF f \in Paths THEN c ELSE Missing] : c \in InitialContents}

Init == fs \in Disk(Files) /\ NothingRunning

\* ------------------------------------------------------ entering a call
\* safe_json_read on a path with no file: the default, before any lock is looked up
ReadMissing(t, c) ==
  /\ pc[t] = "idle" /\ nops[t] < MaxOps
  /\ c.kind = "read" /\ ~exists(c.path)
  /\ op' = [op EXCEPT ![t] = c]
  /\ ret' = [ret EXCEPT ![t] = Return(c.arg)]
  /\ pc' = [pc EXCEPT ![t] = "return"]
  /\ UNCHANGED <<fs, memory_locks, lock_stats, data, exc, file_handle, lock_acquired,
                 sys, waited, nops>>

\* a call is entered: the path's mutex is looked up (created on first use)
Call(t, c) ==
  /\ pc[t] = "idle" /\ nops[t] < MaxOps
  /\ c.kind = "read" => exists(c.path)
  /\ op' = [op EXCEPT ![t] = c]
  /\ memory_locks' = get_memory_lock(memory_locks, c.path)
  /\ pc' = [pc EXCEPT ![t] = "acquire"]
  /\ UNCHANGED <<fs, lock_stats, data, exc, ret, file_handle, lock_acquired, sys,
                 waited, nops>>

\* the call hands its result to the caller; its locals are gone
ReturnToCaller(t) ==
  /\ pc[t] = "return" /\ "outer" \notin DOMAIN op[t]
  /\ pc' = [pc EXCEPT ![t] = "idle"]
  /\ op' = [op EXCEPT ![t] = NoCall]
  /\ data' = [data EXCEPT ![t] = PyNone]
  /\ exc' = [exc EXCEPT ![t] = NoErr]
  /\ ret' = [ret EXCEPT ![t] = NoRet]
  /\ waited' = [waited EXCEPT ![t] = 0]
  /\ nops' = [nops EXCEPT ![t] = @ + 1]
  /\ UNCHANGED <<fs, memory_locks, lock_stats, file_handle, lock_acquired, sys>>

\* ------------------------------------------- memory_lock.acquire(timeout)
TheLock(t) == memory_locks[file_key(op[t].path)]

AfterAcquire(kind) ==
  CASE kind \in {"read", "lock"} -> "fl_open"
    [] kind = "write" -> "open"
    [] kind = "update" -> "u_read"

\* file_lock notes start_time and looks at the time elapsed again later on;
\* safe_json_write and safe_json_update keep no clock once acquire has returned
elapsed_kept(kind, w) == IF kind \in {"read", "lock"} THEN w ELSE 0

AcquireOk(t) ==
  /\ pc[t] = "acquire"
  /\ can_acquire(TheLock(t), t)
  /\ memory_locks' = [memory_locks EXCEPT ![file_key(op[t].path)] = acquire(@, t)]
  /\ pc' = [pc EXCEPT ![t] = AfterAcquire(op[t].kind)]
  /\ waited' = [waited EXCEPT ![t] = elapsed_kept(op[t].kind, @)]
  /\ UNCHANGED <<fs, lock_stats, op, data, exc, ret, file_handle, lock_acquired, sys,
                 nops>>

\* faulty variant: memory_lock.acquire() without a timeout, the wait has no deadline
TickNoDeadline(t) ==
  /\ pc[t] = "acquire"
  /\ ~can_acquire(TheLock(t), t)
  /\ UNCHANGED vars

\* time passes while another thread holds the mutex
Tick(t) ==
  /\ pc[t] = "acquire"
  /\ ~can_acquire(TheLock(t), t)
  /\ waited[t] < TimeoutTicks
  /\ waited' = [waited EXCEPT ![t] = @ + 1]
  /\ UNCHANGED <<fs, memory_locks, lock_stats, pc, op, data, exc, ret, file_handle,
                 lock_acquired, sys, nops>>

\* faulty variant: the result of acquire(timeout) is not looked at
timed_out_ignored(t) ==
  /\ exc' = exc
  /\ lock_stats' = lock_stats
  /\ pc' = [pc EXCEPT ![t] = AfterAcquire(op[t].kind)]

\* faulty variant: the timeout is counted and the scope entered all the same
timed_out_counted(t) ==
  /\ exc' = exc
  /\ lock_stats' = Bump(lock_stats, "timeouts")
  /\ pc' = [pc EXCEPT ![t] = AfterAcquire(op[t].kind)]

\* acquire returned False: TimeoutError is raised.  In file_lock the counter is
\* bumped at the raise and again in the except clause (the whole timeout has elapsed)
timed_out(t) ==
  /\ exc' = [exc EXCEPT ![t] = "TimeoutError"]
  /\ IF op[t].kind \in {"read", "lock"}
     THEN /\ lock_stats' = Bump(Bump(lock_stats, "timeouts"), "timeouts")
          /\ pc' = [pc EXCEPT ![t] = "fl_exit"]
     ELSE /\ lock_stats' = lock_stats
          /\ pc' = [pc EXCEPT ![t] = "except"]

AcquireTimeout(t) ==
  /\ pc[t] = "acquire"
  /\ ~can_acquire(TheLock(t), t)
  /\ waited[t] = TimeoutTicks
  /\ timed_out(t)
  /\ UNCHANGED <<fs, memory_locks, op, data, ret, file_handle, lock_acquired, sys,
                 waited, nops>>

\* ----------------------------------- safe_json_write / safe_json_update
\* faulty variant: the default document for a missing file is [None], not []
read_current_seeded(t) ==
  IF exists(op[t].path) THEN Loads(fs[resolved(op[t].path)]) ELSE <<"ok", PyList(<<PyNone>>)>>

\* safe_json_update: the current document, or the empty list when there is no file
read_current(t) ==
  IF exists(op[t].path) THEN Loads(fs[resolved(op[t].path)]) ELSE <<"ok", PyList(<<>>)>>

URead(t) ==
  /\ pc[t] = "u_read"
  /\ LET cur == read_current(t)
         new == IF cur[1] = "ok" THEN update_func(op[t].arg, cur[2]) ELSE cur
     IN IF new[1] = "ok"
        THEN /\ data' = [data EXCEPT ![t] = new[2]]
             /\ pc' = [pc EXCEPT ![t] = "open"]
             /\ exc' = exc
        ELSE /\ exc' = [exc EXCEPT ![t] = new[2]]
             /\ pc' = [pc EXCEPT ![t] = "except"]
             /\ data' = data
  /\ UNCHANGED <<fs, memory_locks, lock_stats, op, ret, file_handle, lock_acquired,
                 sys, waited, nops>>

\* open(temp_file, 'w'): the temp file is created or truncated
OpenTemp(t) ==
  /\ pc[t] = "open"
  /\ \E ok \in BOOLEAN :
       IF ok
       THEN /\ fs' = [fs EXCEPT ![resolved(temp_file(op[t].path))] = EmptyText]
            /\ pc' = [pc EXCEPT ![t] = "dump"]
            /\ exc' = exc
       ELSE /\ exc' = [exc EXCEPT ![t] = "PermissionError"]
            /\ pc' = [pc EXCEPT ![t] = "except"]
            /\ fs' = fs
  /\ UNCHANGED <<memory_locks, lock_stats, op, data, ret, file_handle, lock_acquired,
                 sys, waited, nops>>

\* faulty variant: json.dump straight into the target, no temp file
dump_in_place(t) == op[t].path

\* the file json.dump writes to; a write through the open handle reaches the
\* path only while the file is still linked there
dump_target(t) == temp_file(op[t].path)

write_chunks(t, text) ==
  fs' = IF fs[resolved(dump_target(t))] = Missing THEN fs
        ELSE [fs EXCEPT ![resolved(dump_target(t))] = text]

\* json.dump writes the document chunk by chunk
Dump(t) ==
  /\ pc[t] = "dump"
  /\ write_chunks(t, FirstChunks(ValueToWrite(t)))
  /\ pc' = [pc EXCEPT ![t] = "dump2"]
  /\ UNCHANGED <<memory_locks, lock_stats, op, data, exc, ret, file_handle,
                 lock_acquired, sys, waited, nops>>

Dump2(t) ==
  /\ pc[t] = "dump2"
  /\ IF Serializable(ValueToWrite(t))
     THEN /\ write_chunks(t, Doc(ToJson(ValueToWrite(t))))
          /\ pc' = [pc EXCEPT ![t] = "replace"]
          /\ exc' = exc
     ELSE /\ exc' = [exc EXCEPT ![t] = "TypeError"]
          /\ pc' = [pc EXCEPT ![t] = "except"]
          /\ fs' = fs
  /\ UNCHANGED <<memory_locks, lock_stats, op, data, ret, file_handle, lock_acquired,
                 sys, waited, nops>>

\* faulty variant: the rename is left out
replace_skipped(t) == fs' = fs

\* temp_file.replace(file_path)
replace(t) ==
  fs' = [fs EXCEPT ![resolved(temp_file(op[t].path))] = Missing,
                   ![resolved(op[t].path)] = fs[resolved(temp_file(op[t].path))]]

\* the rename, then the counter and "return True"
Replace(t) ==
  /\ pc[t] = "replace"
  /\ \E ok \in BOOLEAN :
       IF fs[resolved(temp_file(op[t].path))] = Missing \/ ~ok
       THEN /\ exc' = [exc EXCEPT ![t] =
                         IF fs[resolved(temp_file(op[t].path))] = Missing
                         THEN "FileNotFoundError" ELSE "OSError"]
            /\ pc' = [pc EXCEPT ![t] = "except"]
            /\ UNCHANGED <<fs, lock_stats, ret>>
       ELSE /\ replace(t)
            /\ lock_stats' = Bump(lock_stats, "acquired")
            /\ ret' = [ret EXCEPT ![t] = Return(PyBool(TRUE))]
            /\ pc' = [pc EXCEPT ![t] = "finally"]
            /\ exc' = exc
  /\ UNCHANGED <<memory_locks, op, data, file_handle, lock_acquired, sys, waited, nops>>

\* faulty variant: the except clause unlinks the target instead of the temp file
cleanup_target(t) ==
  IF op[t].kind = "write"
  THEN fs' = [fs EXCEPT ![resolved(op[t].path)] = Missing]
  ELSE fs' = fs

\* except Exception: safe_json_write removes the temp file, safe_json_update does not
cleanup(t) ==
  IF op[t].kind = "write"
  THEN fs' = [fs EXCEPT ![resolved(temp_file(op[t].path))] = Missing]
  ELSE fs' = fs

\* what the except clause of safe_json_write / safe_json_update returns
failure_result(e) == Return(PyBool(FALSE))

Except(t) ==
  /\ pc[t] = "except"
  /\ cleanup(t)
  /\ ret' = [ret EXCEPT ![t] = failure_result(exc[t])]
  /\ pc' = [pc EXCEPT ![t] = "finally"]
  /\ UNCHANGED <<memory_locks, lock_stats, op, data, exc, file_handle, lock_acquired,
                 sys, waited, nops>>

\* finally: memory_lock.release(), its RuntimeError swallowed
Finally(t) ==
  /\ pc[t] = "finally"
  /\ memory_locks' = [memory_locks EXCEPT ![file_key(op[t].path)] = release(@, t)]
  /\ pc' = [pc EXCEPT ![t] = "return"]
  /\ UNCHANGED <<fs, lock_stats, op, data, exc, ret, file_handle, lock_acquired, sys,
                 waited, nops>>

\* ------------------------------------------------------------ file_lock
\* the except clause of file_lock: more than 0.8 * timeout elapsed since the
\* scope was entered counts as a timeout, anything sooner as a conflict
except_clause(t) ==
  lock_stats' = Bump(lock_stats, IF waited[t] = TimeoutTicks THEN "timeouts" ELSE "conflicts")

\* open(file_path, 'r+b'), or 'w+b' (which creates the file) when there is none
open_or_create(t) ==
  fs' = [fs EXCEPT ![resolved(op[t].path)] = IF @ = Missing THEN EmptyText ELSE @]

\* lock_acquired = True, the counter, then the target is opened.  The counter is
\* stored as one more than the value `seen` that the statement
\* self._lock_stats['acquired'] += 1 has loaded
FlEnter(t, at, seen) ==
  /\ pc[t] = at
  /\ lock_acquired' = [lock_acquired EXCEPT ![t] = TRUE]
  /\ \E ok \in BOOLEAN :
       LET stored == [lock_stats EXCEPT !["acquired"] = seen + 1]
       IN IF ok
          THEN /\ open_or_create(t)
               /\ file_handle' = [file_handle EXCEPT ![t] = TRUE]
               /\ lock_stats' = stored
               /\ pc' = [pc EXCEPT ![t] = "fl_syslock"]
               /\ exc' = exc
          ELSE /\ exc' = [exc EXCEPT ![t] = "PermissionError"]
               /\ lock_stats' = Bump(stored,
                                     IF waited[t] = TimeoutTicks THEN "timeouts" ELSE "conflicts")
               /\ pc' = [pc EXCEPT ![t] = "fl_exit"]
               /\ UNCHANGED <<fs, file_handle>>
  /\ UNCHANGED <<memory_locks, op, ret, sys, waited, nops>>

\* the increment taken as one step
FlOpen(t) ==
  /\ FlEnter(t, "fl_open", lock_stats["acquired"])
  /\ data' = data

\* the increment taken as the two steps it is: the counter is loaded (the thread
\* keeps the value, here in data[t], all else a scope keeps there comes later) ...
StatsLoad(t) ==
  /\ pc[t] = "fl_open"
  /\ data' = [data EXCEPT ![t] = PyInt(lock_stats["acquired"])]
  /\ pc' = [pc EXCEPT ![t] = "fl_store"]
  /\ UNCHANGED <<fs, memory_locks, lock_stats, op, exc, ret, file_handle, lock_acquired,
                 sys, waited, nops>>

\* ... and stored: nothing orders the two steps of one thread against those of
\* another, the counters have no lock of their own and the mutexes are per path
StatsStore(t) ==
  /\ FlEnter(t, "fl_store", data[t][2])
  /\ data' = [data EXCEPT ![t] = PyNone]

\* what one attempt to take the advisory lock can meet: flock succeeds; flock is
\* refused for good (permission denied, or the platform has no flock at all);
\* another process holds the lock
LockAttempts == {"locked", "denied", "busy"}

\* faulty variant: a used-up budget is an error
apply_system_lock_strict(platform, r, elapsed) ==
  CASE elapsed >= TimeoutTicks -> "raise"
    [] r = "locked" -> "held"
    [] r = "denied" -> "degraded"
    [] r = "busy" -> IF platform = "win32" THEN "degraded" ELSE "retry"

\* faulty variant: the loop has no deadline
apply_system_lock_unbounded(platform, r, elapsed) ==
  CASE r = "locked" -> "held"
    [] r = "denied" -> "degraded"
    [] r = "busy" -> IF platform = "win32" THEN "degraded" ELSE "retry"

\* _apply_system_lock, one turn of its loop.  The loop runs while the time elapsed
\* since the scope was entered is below the timeout; once the budget is used up
\* the function returns without the lock, as it does at once when flock is refused
\* for good.  A busy lock is slept on and tried again where flock is used; on
\* win32 every OSError of msvcrt.locking, the one of a busy lock included, is
\* caught by the inner except clause, which returns at once.
apply_system_lock(platform, r, elapsed) ==
  CASE elapsed >= TimeoutTicks -> "degraded"
    [] r = "locked" -> "held"
    [] r = "denied" -> "degraded"
    [] r = "busy" -> IF platform = "win32" THEN "degraded" ELSE "retry"

\* file_lock: self._apply_system_lock(file_handle, mode, remaining budget), on
\* the given platform and with the given things an attempt can meet
FlSysLockOn(t, platform, attempts) ==
  /\ pc[t] = "fl_syslock"
  /\ \E r \in attempts :
       LET res == apply_system_lock(platform, r, waited[t])
       IN CASE res = "retry" ->
                 /\ waited' = [waited EXCEPT ![t] = @ + 1]
                 /\ UNCHANGED <<sys, pc, exc, lock_stats>>
            [] res = "raise" ->
                 /\ exc' = [exc EXCEPT ![t] = "TimeoutError"]
                 /\ except_clause(t)
                 /\ pc' = [pc EXCEPT ![t] = "fl_exit"]
                 /\ UNCHANGED <<sys, waited>>
            [] OTHER ->
                 /\ sys' = [sys EXCEPT ![t] = res]
                 /\ pc' = [pc EXCEPT ![t] = "body"]
                 /\ UNCHANGED <<waited, exc, lock_stats>>
  /\ UNCHANGED <<fs, memory_locks, op, data, ret, file_handle, lock_acquired, nops>>

\* the platform of the specifications that do not name one.  What a scope can do
\* on win32 it can do here as well: a busy lock there ends the attempts as a
\* refused one does here
FlSysLock(t) == FlSysLockOn(t, "linux", LockAttempts)

\* the body of the with block: json.load for safe_json_read, the caller's own
\* critical section for a direct file_lock scope
body(t) ==
  IF op[t].kind = "read"
  THEN Loads(fs[resolved(op[t].path)])
  ELSE IF op[t].arg[2] = "ok" THEN <<"ok", PyNone>> ELSE <<"err", "BodyError">>

Body(t) ==
  /\ pc[t] = "body"
  /\ LET r == body(t)
     IN IF r[1] = "ok"
        THEN /\ data' = [data EXCEPT ![t] = r[2]]
             /\ UNCHANGED <<exc, lock_stats>>
        ELSE /\ exc' = [exc EXCEPT ![t] = r[2]]
             /\ except_clause(t)
             /\ data' = data
  /\ pc' = [pc EXCEPT ![t] = "fl_exit"]
  /\ UNCHANGED <<fs, memory_locks, op, ret, file_handle, lock_acquired, sys, waited, nops>>

\* faulty variant: safe_json_read without its except clause
outcome_raising(kind, e, d, default) == IF e = NoErr THEN Return(d) ELSE Raise(e)

\* what the caller of the scope gets: safe_json_read turns every exception
\* into its default, a direct file_lock scope lets it through
outcome(kind, e, d, default) ==
  IF kind = "read"
  THEN IF e = NoErr THEN Return(d) ELSE Return(default)
  ELSE IF e = NoErr THEN Return(PyNone) ELSE Raise(e)

\* _release_system_lock: the unlock call; its failure is logged inside the
\* function and leaves the advisory lock with the handle
release_system_lock(s, ok) == IF s = "held" /\ ~ok THEN "held" ELSE "none"

\* finally, first statement: if file_handle, the advisory lock is released
FlUnlock(t) ==
  /\ pc[t] = "fl_exit" /\ file_handle[t]
  /\ \E ok \in BOOLEAN : sys' = [sys EXCEPT ![t] = release_system_lock(@, ok)]
  /\ pc' = [pc EXCEPT ![t] = "fl_close"]
  /\ UNCHANGED <<fs, memory_locks, lock_stats, op, data, exc, ret, file_handle,
                 lock_acquired, waited, nops>>

\* faulty variant: an error while closing the handle ends the finally block
after_close_unless_failed(closed) == IF closed THEN "fl_release" ELSE "return"

\* where the finally block goes on after file_handle.close(): to the release
\* of the mutex, whether or not the close raised (that error is caught and logged)
after_close(closed) == "fl_release"

\* finally, second statement: file_handle.close().  The descriptor is given up
\* even when close reports an error, and the advisory lock goes with it
FlClose(t) ==
  /\ pc[t] = "fl_close"
  /\ file_handle' = [file_handle EXCEPT ![t] = FALSE]
  /\ sys' = [sys EXCEPT ![t] = "none"]
  /\ \E closed \in BOOLEAN : pc' = [pc EXCEPT ![t] = after_close(closed)]
  /\ UNCHANGED <<fs, memory_locks, lock_stats, op, data, exc, ret, lock_acquired,
                 waited, nops>>

\* faulty variant: the mutex is given up before the advisory lock and the handle
at_release_early(t) == pc[t] = "fl_exit"

\* the point of the finally block where memory_lock.release() stands: after the
\* handle has been dealt with, or at once when no handle was opened
at_release(t) == pc[t] = "fl_release" \/ (pc[t] = "fl_exit" /\ ~file_handle[t])

\* finally, last statement: if lock_acquired, the mutex is released; the scope
\* is left with the value or the exception of its body
FlExit(t) ==
  /\ at_release(t)
  /\ memory_locks' = [memory_locks EXCEPT ![file_key(op[t].path)] =
                        IF lock_acquired[t] THEN release(@, t) ELSE @]
  /\ lock_acquired' = [lock_acquired EXCEPT ![t] = FALSE]
  /\ ret' = [ret EXCEPT ![t] = outcome(op[t].kind, exc[t], data[t], op[t].arg)]
  /\ pc' = [pc EXCEPT ![t] = "return"]
  /\ UNCHANGED <<fs, lock_stats, op, data, exc, file_handle, sys, waited, nops>>

\* -------------------------------------------------------- specifications
Step(t) ==
  \/ AcquireOk(t) \/ Tick(t) \/ AcquireTimeout(t)
  \/ URead(t) \/ OpenTemp(t) \/ Dump(t) \/ Dump2(t) \/ Replace(t) \/ Except(t) \/ Finally(t)
  \/ FlOpen(t) \/ FlSysLock(t) \/ Body(t) \/ FlUnlock(t) \/ FlClose(t) \/ FlExit(t)
  \/ ReturnToCaller(t)

AllCalls == ReadCalls \cup WriteCalls \cup UpdateCalls \cup LockCalls

Next ==
  \E t \in Threads :
    \/ \E c \in ReadCalls : ReadMissing(t, c)
    \/ \E c \in AllCalls : Call(t, c)
    \/ Step(t)

Spec == Init /\ [][Next]_vars

\* the steps a call takes by itself.  A thread inside a call keeps being scheduled
\* and its clock advances; only the body of a caller's own file_lock scope may go
\* on for ever, and an idle thread need not call again
Running(t) ==
  \/ AcquireOk(t) \/ Tick(t) \/ AcquireTimeout(t)
  \/ URead(t) \/ OpenTemp(t) \/ Dump(t) \/ Dump2(t) \/ Replace(t) \/ Except(t) \/ Finally(t)
  \/ FlOpen(t) \/ FlSysLock(t) \/ (op[t].kind = "read" /\ Body(t))
  \/ FlUnlock(t) \/ FlClose(t) \/ FlExit(t)

\* one thread opens file_lock scopes, in which it may stay for ever; the other
\* calls each of the four operations
Holder == CHOOSE t \in Threads : \A u \in Threads : t <= u

CallsOf(t) ==
  IF t = Holder
  THEN {c \in LockCalls : c.arg[2] = "ok"}
  ELSE {c \in AllCalls : \/ c.kind = "read"
                         \/ c.kind = "write" /\ Serializable(c.arg)
                         \/ c.kind = "update" /\ c.arg[1] = "append"
                         \/ c.kind = "lock" /\ c.arg[2] = "ok"}

NextFair ==
  \E t \in Threads :
    \/ \E c \in ReadCalls : t # Holder /\ ReadMissing(t, c)
    \/ \E c \in CallsOf(t) : Call(t, c)
    \/ Step(t)

SpecFair == Init /\ [][NextFair]_vars /\ \A t \in Threads : WF_vars(Running(t))

\* N threads that only call safe_json_update, each call appending its own marker
NextUpd ==
  \E t \in Threads :
    \/ \E c \in AppendCalls(Marker(t, nops[t] + 1)) : Call(t, c)
    \/ AcquireOk(t) \/ Tick(t) \/ AcquireTimeout(t)
    \/ URead(t) \/ OpenTemp(t) \/ Dump(t) \/ Dump2(t) \/ Replace(t) \/ Except(t) \/ Finally(t)
    \/ ReturnToCaller(t)

SpecUpd == Init /\ [][NextUpd]_vars

\* the same appending threads, each writing the one file in a spelling of its choice
NextKey ==
  \E t \in Threads :
    \/ \E s \in Spellings :
         Call(t, [kind |-> "update", path |-> Path(s), arg |-> <<"append", Marker(t, nops[t] + 1)>>])
    \/ AcquireOk(t) \/ Tick(t) \/ AcquireTimeout(t)
    \/ URead(t) \/ OpenTemp(t) \/ Dump(t) \/ Dump2(t) \/ Replace(t) \/ Except(t) \/ Finally(t)
    \/ ReturnToCaller(t)

SpecKey == Init /\ [][NextKey]_vars

\* threads that call safe_json_write on two targets of one folder with the same
\* stem, each thread writing its own value
NextTmp ==
  \E t \in Threads :
    \/ \E p \in Targets : Call(t, [kind |-> "write", path |-> p, arg |-> PyList(<<Marker(t, nops[t] + 1)>>)])
    \/ AcquireOk(t) \/ Tick(t) \/ AcquireTimeout(t)
    \/ OpenTemp(t) \/ Dump(t) \/ Dump2(t) \/ Replace(t) \/ Except(t) \/ Finally(t)
    \/ ReturnToCaller(t)

InitTmp == fs \in Disk(FilesOf(Targets)) /\ NothingRunning

\* each thread has a path of its own
OwnTarget(t) == DataFile("classes", IF t = 1 THEN ".json" ELSE ".bak")

\* threads that open file_lock scopes, each on its own path; the increments of
\* the counter are taken load by load and store by store
NextStats ==
  \E t \in Threads :
    \/ Call(t, [kind |-> "lock", path |-> OwnTarget(t), arg |-> <<"body", "ok">>])
    \/ AcquireOk(t)
    \/ StatsLoad(t) \/ StatsStore(t) \/ FlSysLock(t) \/ Body(t)
    \/ FlUnlock(t) \/ FlClose(t) \/ FlExit(t)
    \/ ReturnToCaller(t)

SpecStats == InitTmp /\ [][NextStats]_vars

SpecTmp == InitTmp /\ [][NextTmp]_vars

\* ------------------------------------------- DataService on classes.json
\* a class record, reduced to its id
Class(n) == PyDict([k \in {PyStr("id")} |-> PyInt(n)])

\* the class on file when the threads start, and the one creer_classe adds
OldClass == Class(0)
NewClass == Class(1)

\* c.get('id') != classe_id
OtherClass(c, id) == ~(PyStr("id") \in DOMAIN c[2] /\ c[2][PyStr("id")] = id)

\* supprimer_classe, up to its write: the document is loaded with no lock held
\* and the class is filtered out of it
classes_filtrees(p, id) ==
  IF ~exists(p) THEN <<"err", "Exception">>
  ELSE LET cur == Loads(fs[resolved(p)])
       IN IF cur[1] = "err" \/ cur[2][1] # "list" THEN <<"err", "Exception">>
          ELSE IF \E i \in 1..Len(cur[2][2]) : cur[2][2][i][1] # "dict" THEN <<"err", "Exception">>
          ELSE LET kept == SelectSeq(cur[2][2], LAMBDA c : OtherClass(c, id))
               IN IF Len(kept) = Len(cur[2][2]) THEN <<"err", "Exception">>
                  ELSE <<"ok", PyList(kept)>>

SupprimerCall(t, c) ==
  /\ pc[t] = "idle" /\ nops[t] < MaxOps
  /\ c.kind = "supprimer"
  /\ op' = [op EXCEPT ![t] = c]
  /\ pc' = [pc EXCEPT ![t] = "s_read"]
  /\ UNCHANGED <<fs, memory_locks, lock_stats, data, exc, ret, file_handle, lock_acquired,
                 sys, waited, nops>>

SupprimerRead(t) ==
  /\ pc[t] = "s_read"
  /\ LET r == classes_filtrees(op[t].path, op[t].arg)
     IN IF r[1] = "ok"
        THEN /\ data' = [data EXCEPT ![t] = r[2]]
             /\ pc' = [pc EXCEPT ![t] = "s_open"]
             /\ UNCHANGED <<exc, ret>>
        ELSE /\ exc' = [exc EXCEPT ![t] = r[2]]
             /\ ret' = [ret EXCEPT ![t] = Raise(r[2])]
             /\ pc' = [pc EXCEPT ![t] = "return"]
             /\ data' = data
  /\ UNCHANGED <<fs, memory_locks, lock_stats, op, file_handle, lock_acquired, sys,
                 waited, nops>>

\* open(classes_file, 'w'): the file itself is truncated
SupprimerOpen(t) ==
  /\ pc[t] = "s_open"
  /\ fs' = [fs EXCEPT ![resolved(op[t].path)] = EmptyText]
  /\ pc' = [pc EXCEPT ![t] = "s_dump"]
  /\ UNCHANGED <<memory_locks, lock_stats, op, data, exc, ret, file_handle, lock_acquired,
                 sys, waited, nops>>

\* json.dump(classes_filtrees, f) and "return True".  The text goes to the file
\* that was opened: when a rename has put another file at the path since, the
\* path keeps that other file
SupprimerDump(t) ==
  /\ pc[t] = "s_dump"
  /\ fs' = IF fs[resolved(op[t].path)] = EmptyText
           THEN [fs EXCEPT ![resolved(op[t].path)] = Doc(ToJson(data[t]))]
           ELSE fs
  /\ ret' = [ret EXCEPT ![t] = Return(PyBool(TRUE))]
  /\ pc' = [pc EXCEPT ![t] = "return"]
  /\ UNCHANGED <<memory_locks, lock_stats, op, data, exc, file_handle, lock_acquired,
                 sys, waited, nops>>

\* one thread serves a request that creates a class, the other a request that
\* deletes one
Creator == CHOOSE t \in Threads : \A u \in Threads : t <= u
Deleter == CHOOSE t \in Threads : t # Creator

\* creer_classe is safe_json_update with a transform that appends the class, and
\* succeeds exactly when that call returns True
NextClasses ==
  \/ \E p \in Paths : Call(Creator, [kind |-> "update", path |-> p, arg |-> <<"append", NewClass>>])
  \/ AcquireOk(Creator) \/ URead(Creator) \/ OpenTemp(Creator) \/ Dump(Creator)
  \/ Dump2(Creator) \/ Replace(Creator) \/ Except(Creator) \/ Finally(Creator)
  \/ ReturnToCaller(Creator)
  \/ \E p \in Paths, c \in {OldClass, NewClass} :
       SupprimerCall(Deleter, [kind |-> "supprimer", path |-> p, arg |-> c[2][PyStr("id")]])
  \/ SupprimerRead(Deleter) \/ SupprimerOpen(Deleter) \/ SupprimerDump(Deleter)
  \/ ReturnToCaller(Deleter)

\* classes.json holds one class or none when the two requests arrive
InitClasses ==
  /\ fs \in {[f \in Files |-> IF f \in Paths THEN Doc(ToJson(PyList(q))) ELSE Missing] :
              q \in {<<>>, <<OldClass>>}}
  /\ NothingRunning

SpecClasses == InitClasses /\ [][NextClasses]_vars

\* the documents a caller may hand to safe_json_write
Atoms == {PyNone, PyBool(TRUE), PyInt(1), PyStr("a"), PyNaN}

Elems == Atoms \cup {PyList(<<>>), PyTuple(<<>>)}

Keys == {PyStr("a"), PyInt(1)}

SeqsUpTo(S, n) == UNION {[1..k -> S] : k \in 0..n}

PyValues ==
  {PyList(q) : q \in SeqsUpTo(Elems, MaxLen)}
  \cup {PyTuple(q) : q \in SeqsUpTo(Elems, MaxLen)}
  \cup {PyDict(f) : f \in UNION {[K -> Atoms] : K \in {K \in SUBSET Keys : Cardinality(K) <= MaxLen}}}
  \cup {PyList(<<PyObject>>)}

Writer == CHOOSE t \in Threads : \A u \in Threads : t <= u
Reader == CHOOSE t \in Threads : t # Writer

\* safe_json_write(p, V) by one thread, then safe_json_read(p, default) by another
\* once the write has returned; nothing else touches the path
NextRT ==
  \/ \E p \in Paths, v \in PyValues : Call(Writer, [kind |-> "write", path |-> p, arg |-> v])
  \/ AcquireOk(Writer) \/ OpenTemp(Writer) \/ Dump(Writer) \/ Dump2(Writer)
  \/ Replace(Writer) \/ Except(Writer) \/ Finally(Writer)
  \/ /\ pc[Writer] = "return"
     /\ \/ \E p \in Paths, d \in {PyNone, PyList(<<>>)} :
             \/ ReadMissing(Reader, [kind |-> "read", path |-> p, arg |-> d])
             \/ Call(Reader, [kind |-> "read", path |-> p, arg |-> d])
        \/ AcquireOk(Reader) \/ FlOpen(Reader) \/ FlSysLock(Reader) \/ Body(Reader)
        \/ FlUnlock(Reader) \/ FlClose(Reader) \/ FlExit(Reader) \/ ReturnToCaller(Reader)

SpecRT == Init /\ [][NextRT]_vars

\* threads that only open file_lock scopes; a waiting thread is scheduled and its
\* clock advances, a thread inside its scope may stay there for ever
NextLock ==
  \E t \in Threads :
    \/ \E c \in LockCalls : Call(t, c)
    \/ AcquireOk(t) \/ Tick(t) \/ AcquireTimeout(t)
    \/ FlOpen(t) \/ FlSysLock(t) \/ Body(t) \/ FlUnlock(t) \/ FlClose(t) \/ FlExit(t)
    \/ ReturnToCaller(t)

Waiting(t) == AcquireOk(t) \/ Tick(t) \/ AcquireTimeout(t)

\* what an attempt meets when the only obstacle is another process holding the lock
Contended == {"locked", "busy"}

\* file_lock scopes on one platform, the advisory lock being free or busy
NextOn(platform) ==
  \E t \in Threads :
    \/ \E c \in LockCalls : Call(t, c)
    \/ AcquireOk(t) \/ Tick(t) \/ AcquireTimeout(t)
    \/ FlOpen(t) \/ FlSysLockOn(t, platform, Contended) \/ Body(t)
    \/ FlUnlock(t) \/ FlClose(t) \/ FlExit(t)
    \/ ReturnToCaller(t)

NextWin32 == NextOn("win32")

\* ------------------------------- calls made from inside a critical section
\* a call of the service made by code that runs in a critical section: the
\* locals of the running call are set aside (with the place where it goes on and
\* the value it keeps meanwhile) and the new call starts with locals of its own
Enter(t, c, resume, kept) ==
  /\ "outer" \notin DOMAIN op[t]
  /\ op' = [op EXCEPT ![t] =
              [kind |-> c.kind, path |-> c.path, arg |-> c.arg,
               outer |-> [pc |-> resume, op |-> op[t], data |-> kept, exc |-> exc[t],
                          ret |-> ret[t], file_handle |-> file_handle[t],
                          lock_acquired |-> lock_acquired[t], sys |-> sys[t],
                          waited |-> waited[t]]]]
  /\ memory_locks' = get_memory_lock(memory_locks, c.path)
  /\ pc' = [pc EXCEPT ![t] = "acquire"]
  /\ data' = [data EXCEPT ![t] = PyNone]
  /\ exc' = [exc EXCEPT ![t] = NoErr]
  /\ ret' = [ret EXCEPT ![t] = NoRet]
  /\ file_handle' = [file_handle EXCEPT ![t] = FALSE]
  /\ lock_acquired' = [lock_acquired EXCEPT ![t] = FALSE]
  /\ sys' = [sys EXCEPT ![t] = "none"]
  /\ waited' = [waited EXCEPT ![t] = 0]
  /\ UNCHANGED <<fs, lock_stats, nops>>

\* the body of a file_lock scope calls the service, once
ScopeCall(t, c) ==
  /\ pc[t] = "body" /\ op[t].kind = "lock" /\ data[t] = PyNone
  /\ Enter(t, c, "body", PyBool(TRUE))

\* safe_json_update has read the current document and calls update_func, which
\* calls the service before it returns
TransformCall(t, c) ==
  /\ pc[t] = "u_read" /\ read_current(t)[1] = "ok"
  /\ Enter(t, c, "u_apply", read_current(t)[2])

\* the call made from the critical section returns: the locals set aside are back
NestedReturn(t) ==
  /\ pc[t] = "return" /\ "outer" \in DOMAIN op[t]
  /\ LET o == op[t].outer
     IN /\ pc' = [pc EXCEPT ![t] = o.pc]
        /\ op' = [op EXCEPT ![t] = o.op]
        /\ data' = [data EXCEPT ![t] = o.data]
        /\ exc' = [exc EXCEPT ![t] = o.exc]
        /\ ret' = [ret EXCEPT ![t] = o.ret]
        /\ file_handle' = [file_handle EXCEPT ![t] = o.file_handle]
        /\ lock_acquired' = [lock_acquired EXCEPT ![t] = o.lock_acquired]
        /\ sys' = [sys EXCEPT ![t] = o.sys]
        /\ waited' = [waited EXCEPT ![t] = o.waited]
  /\ UNCHANGED <<fs, memory_locks, lock_stats, nops>>

\* update_func returns the new document, or raises
UApply(t) ==
  /\ pc[t] = "u_apply"
  /\ LET new == update_func(op[t].arg, data[t])
     IN IF new[1] = "ok"
        THEN /\ data' = [data EXCEPT ![t] = new[2]]
             /\ pc' = [pc EXCEPT ![t] = "open"]
             /\ exc' = exc
        ELSE /\ exc' = [exc EXCEPT ![t] = new[2]]
             /\ pc' = [pc EXCEPT ![t] = "except"]
             /\ data' = data
  /\ UNCHANGED <<fs, memory_locks, lock_stats, op, ret, file_handle, lock_acquired,
                 sys, waited, nops>>

\* the critical sections the holder opens, and what it calls from inside them
OuterCalls == {c \in LockCalls : c.arg[2] = "ok"} \cup AppendCalls(PyInt(0))

InnerCalls ==
  ReadCalls \cup {c \in WriteCalls : Serializable(c.arg)} \cup AppendCalls(PyInt(1))
    \cup {c \in LockCalls : c.arg[2] = "ok"}

\* one thread opens critical sections and calls the service from inside them,
\* on the same path; the other writes the same path
NextNest ==
  \E t \in Threads :
    \/ \E c \in IF t = Holder THEN OuterCalls ELSE {c \in WriteCalls : Serializable(c.arg)} :
         Call(t, c)
    \/ \E c \in InnerCalls : t = Holder /\ (ScopeCall(t, c) \/ TransformCall(t, c))
    \/ NestedReturn(t) \/ UApply(t)
    \/ Step(t)

SpecNest == Init /\ [][NextNest]_vars

SpecWin32 == Init /\ [][NextWin32]_vars

SpecLock == Init /\ [][NextLock]_vars /\ \A t \in Threads : WF_vars(Waiting(t))

\* ------------------------------------------------------------ claims
InCall(t, kinds) == op[t].kind \in kinds

\* the elements of the JSON array a file holds (none when it holds no array)
Elements(p) ==
  IF fs[p][1] = "doc" /\ fs[p][2][1] = "array"
  THEN {fs[p][2][2][i] : i \in 1..Len(fs[p][2][2])}
  ELSE {}

\* between its read of the current document and its rename
InReadModifyWrite(t) == InCall(t, {"update"}) /\ pc[t] \in {"u_read", "open", "dump", "dump2", "replace"}

ReturnedTrue(t) == pc[t] = "return" /\ ret[t] = Return(PyBool(TRUE))

\* C1: no lost updates.  With threads calling safe_json_update concurrently on one
\* path, each call appending its own marker: the marker of every call that has
\* returned True is in the document, no marker once in the document leaves it
\* (so the final document holds the markers of all the calls that succeeded), and
\* a call owns the path's mutex from before its read until after its rename.
C1_NoLostUpdates ==
  /\ [](\A t \in Threads :
          /\ InCall(t, {"update"}) /\ ReturnedTrue(t) => ToJson(op[t].arg[2]) \in Elements(op[t].path)
          /\ InReadModifyWrite(t) => TheLock(t).owner = t)
  /\ [][\A p \in Paths : Elements(p) \subseteq Elements(p)']_vars

\* two updates have both returned True and both markers are in the document
C1_Witness ==
  /\ \A t \in Threads : InCall(t, {"update"}) /\ ReturnedTrue(t)
  /\ \E p \in Paths : Cardinality(Elements(p)) = Cardinality(Threads)

\* in the temp-file write or the rename of safe_json_write / safe_json_update
InMutation(t) == InCall(t, {"write", "update"}) /\ pc[t] \in {"open", "dump", "dump2", "replace"}

\* C2: mutual exclusion per path.  At most one thread is inside the mutation
\* section (temp-file write and rename) of safe_json_write or safe_json_update
\* for a given path.
C2_MutualExclusion ==
  \A p \in Paths : Cardinality({t \in Threads : InMutation(t) /\ op[t].path = p}) <= 1

\* one thread is writing the temp file while another waits for the same path
C2_Witness ==
  \E t, u \in Threads :
    /\ InMutation(t) /\ pc[t] = "dump2"
    /\ InCall(u, {"write", "update"}) /\ pc[u] = "acquire" /\ op[u].path = op[t].path

\* C3: atomic visibility.  A safe_json_read running concurrently with a write or
\* update of the same path never parses a truncated document: whenever it is about
\* to parse, and in every other state, the target holds no partly written text.
C3_AtomicVisibility ==
  /\ \A p \in Paths : fs[p] # Partial
  /\ \A t \in Threads : InCall(t, {"read"}) /\ pc[t] = "body" => fs[op[t].path][1] \in {"doc", "text"}

\* a read is in flight while a writer of the same path has a half-written temp file
C3_Witness ==
  \E r, w \in Threads :
    /\ InCall(r, {"read"}) /\ pc[r] = "acquire"
    /\ InMutation(w) /\ op[w].path = op[r].path
    /\ fs[temp_file(op[w].path)] = Partial

\* C5: failure leaves the original untouched.  A step of a safe_json_write or
\* safe_json_update call changes the target only when the call goes on to return
\* True, and a call that met an error (lock timeout, transform raising, value not
\* serializable, temp-file or rename error) returns False to its caller.
C5_FailureLeavesOriginal ==
  /\ [][\A t \in Threads :
          InCall(t, {"write", "update"}) /\ pc'[t] # pc[t] /\ fs'[op[t].path] # fs[op[t].path]
            => ret'[t] = Return(PyBool(TRUE))]_vars
  /\ [](\A t \in Threads :
          InCall(t, {"write", "update"}) /\ pc[t] \in {"finally", "return"}
            => /\ ret[t] \in {Return(PyBool(TRUE)), Return(PyBool(FALSE))}
               /\ exc[t] # NoErr <=> ret[t] = Return(PyBool(FALSE)))

\* a write failed on a value that is not serializable and the document is still there
C5_Witness ==
  \E t \in Threads :
    /\ InCall(t, {"write", "update"}) /\ pc[t] = "return"
    /\ exc[t] = "TypeError" /\ ret[t] = Return(PyBool(FALSE))
    /\ fs[op[t].path] = Doc(JArr(<<>>))

\* a value json.load can give back: lists, dicts with string keys, strings,
\* integers, booleans, None
RECURSIVE JsonNative(_)
JsonNative(v) ==
  CASE v[1] = "list" -> \A i \in 1..Len(v[2]) : JsonNative(v[2][i])
    [] v[1] = "dict" -> \A k \in DOMAIN v[2] : k[1] = "str" /\ JsonNative(v[2][k])
    [] v[1] \in {"tuple", "float", "object"} -> FALSE
    [] OTHER -> TRUE

\* the write has returned True and the read that followed it has returned
\* without meeting an error
RoundTripDone ==
  /\ InCall(Writer, {"write"}) /\ ReturnedTrue(Writer)
  /\ InCall(Reader, {"read"}) /\ pc[Reader] = "return" /\ exc[Reader] = NoErr

ReadBack(v) == ret[Reader][1] = "return" /\ PyEq(ret[Reader][2], v)

InScope(t) == InCall(t, {"read", "lock"}) /\ pc[t] \in {"fl_open", "fl_syslock", "body"}

TimedOut(t) == exc[t] = "TimeoutError"

\* C6: timeout bound.  A file_lock acquisition on a path whose mutex another thread
\* holds and does not release never hangs: the wait ends.  It ends with a
\* TimeoutError raised to the caller, after the whole timeout and not before, and
\* the thread never enters the critical section while the other thread holds the mutex.
C6_TimeoutBound ==
  /\ \A t \in Threads : (InCall(t, {"lock"}) /\ pc[t] = "acquire") ~> (pc[t] # "acquire")
  /\ [](\A t \in Threads :
          /\ InCall(t, {"lock"}) /\ TimedOut(t) =>
               /\ waited[t] = TimeoutTicks /\ ~lock_acquired[t] /\ ~InScope(t)
               /\ pc[t] = "return" => ret[t] = Raise("TimeoutError")
          /\ InScope(t) => TheLock(t).owner = t)
  /\ [][\A t \in Threads :
          InCall(t, {"lock"}) /\ pc[t] = "acquire" /\ ~can_acquire(TheLock(t), t)
            /\ waited[t] = TimeoutTicks /\ pc'[t] # pc[t] => TimedOut(t)']_vars

\* a scope has ended with TimeoutError while the other thread is still inside its own
C6_Witness ==
  \E t, u \in Threads :
    /\ InCall(t, {"lock"}) /\ pc[t] = "return" /\ ret[t] = Raise("TimeoutError")
    /\ InCall(u, {"lock"}) /\ pc[u] = "body" /\ op[u].path = op[t].path

\* json.dump failed (TypeError) or temp_file.replace failed
WriteFailure == {"TypeError", "OSError", "FileNotFoundError"}

\* C7: for safe_json_write and safe_json_update, what the caller gets when the
\* mutex wait timed out differs from what it gets when serialization or the
\* rename failed.
C7_TimeoutDistinctFromWriteFailure ==
  \A t, u \in Threads :
    /\ InCall(t, {"write", "update"}) /\ pc[t] = "return" /\ TimedOut(t)
    /\ InCall(u, {"write", "update"}) /\ pc[u] = "return" /\ exc[u] \in WriteFailure
    => ret[t] # ret[u]

\* C8: a safe_json_read whose mutex wait timed out raises the timeout error to
\* its caller; it does not return the default or any document.
C8_ReadTimeoutPropagates ==
  \A t \in Threads :
    InCall(t, {"read"}) /\ pc[t] = "return" /\ TimedOut(t) => ret[t] = Raise("TimeoutError")

\* C9: missing-file default.  A safe_json_read entered while the path has no file
\* returns the caller's default at once, and the step changes neither the disk
\* (the file stays missing), nor the registry, nor the counters.
C9_MissingFileDefault ==
  [][\A t \in Threads :
       pc[t] = "idle" /\ pc'[t] # "idle" /\ op'[t].kind = "read" /\ fs[op'[t].path] = Missing
         => /\ pc'[t] = "return" /\ ret'[t] = Return(op'[t].arg)
            /\ fs' = fs /\ memory_locks' = memory_locks /\ lock_stats' = lock_stats]_vars

\* a read has returned its default, the file is missing and the registry is empty
C9_Witness ==
  \E t \in Threads :
    /\ InCall(t, {"read"}) /\ pc[t] = "return" /\ ret[t] = Return(op[t].arg)
    /\ fs[op[t].path] = Missing /\ DOMAIN memory_locks = {}

\* C10: corrupt recovery.  A safe_json_read of a file whose content is not valid
\* JSON returns the caller's default, raises nothing, and no step of the read
\* changes the file.
C10_CorruptRecovery ==
  /\ [](\A t \in Threads :
          InCall(t, {"read"}) /\ pc[t] = "return" /\ exc[t] = "JSONDecodeError"
            => ret[t] = Return(op[t].arg))
  /\ [][\A t \in Threads : InCall(t, {"read"}) /\ pc'[t] # pc[t] => fs' = fs]_vars

\* a read of the corrupt file has returned the default and the file is as it was
C10_Witness ==
  \E t \in Threads :
    /\ InCall(t, {"read"}) /\ pc[t] = "return" /\ exc[t] = "JSONDecodeError"
    /\ ret[t] = Return(op[t].arg) /\ fs[op[t].path] = Garbage

\* the mutexes of the registry a thread owns
Held(t) == {k \in DOMAIN memory_locks : memory_locks[k].owner = t}

\* C11: release on every exit path.  Once a file_lock scope has been left (by a
\* normal exit, an exception raised in the body, a failure to open the file, or
\* with a failing release of the advisory lock or close of the handle) the thread
\* owns no mutex any more: the hold the acquisition took has been released.
C11_ReleaseOnEveryExit ==
  \A t \in Threads : pc[t] \in {"idle", "return"} => Held(t) = {} /\ ~lock_acquired[t]

\* a scope was left by an exception of its body and the other thread has since
\* acquired the same path
C11_Witness ==
  \E t, u \in Threads :
    /\ InCall(t, {"lock"}) /\ pc[t] = "return" /\ ret[t] = Raise("BodyError")
    /\ InCall(u, {"lock"}) /\ pc[u] = "body" /\ op[u].path = op[t].path
    /\ Held(u) = {file_key(op[t].path)}

\* the errors the body of a scope can raise
BodyErrors == {"BodyError", "JSONDecodeError"}

\* C12: degradation is never an error.  Whatever the attempts to take the advisory
\* lock meet (refused for good, or busy until the budget is used up), the step
\* leaves _apply_system_lock for the body of the scope with no exception and no
\* counter changed; a scope running without the advisory lock still owns the mutex,
\* the only errors it can end with are those of its body, and when its body raised
\* nothing it returns normally.
C12_DegradationIsNoError ==
  /\ [](\A t \in Threads :
          sys[t] = "degraded"
            => /\ pc[t] \in {"body", "fl_exit"} /\ lock_acquired[t] /\ TheLock(t).owner = t
               /\ exc[t] \in {NoErr} \cup BodyErrors
               /\ pc[t] = "body" => exc[t] = NoErr)
  /\ [][\A t \in Threads :
          /\ pc[t] = "fl_syslock" /\ pc'[t] # pc[t]
               => /\ pc'[t] = "body" /\ sys'[t] \in {"held", "degraded"}
                  /\ exc'[t] = NoErr /\ lock_stats' = lock_stats
          /\ InCall(t, {"read", "lock"}) /\ exc[t] = NoErr /\ pc[t] # "return" /\ pc'[t] = "return"
               => ret'[t][1] = "return"]_vars

\* the body of a scope has run to its end without the advisory lock, the budget
\* having been used up by then
C12_Witness ==
  \E t \in Threads :
    /\ InCall(t, {"lock"}) /\ pc[t] = "fl_exit" /\ exc[t] = NoErr
    /\ sys[t] = "degraded" /\ waited[t] = TimeoutTicks

\* C13: one mutex per path for the life of the process.  The step that looks a
\* path up (_get_memory_lock, also when a second thread looks the path up while the
\* first is already using its mutex) leaves every existing entry as it is, mutex
\* state included, and adds at most the entry of that path; no step removes an
\* entry; and a thread past the lookup always finds its path's entry in the registry.
C13_OneMutexPerPath ==
  /\ [](\A t \in Threads :
          pc[t] \notin {"idle", "return"} => file_key(op[t].path) \in DOMAIN memory_locks)
  /\ [][/\ DOMAIN memory_locks \subseteq DOMAIN memory_locks'
        /\ \A t \in Threads :
             pc[t] = "idle" /\ pc'[t] = "acquire"
               => /\ DOMAIN memory_locks' = DOMAIN memory_locks \cup {file_key(op'[t].path)}
                  /\ \A k \in DOMAIN memory_locks : memory_locks'[k] = memory_locks[k]]_vars

\* a second thread has looked the path up and waits on the very mutex the first owns
C13_Witness ==
  \E t, u \in Threads :
    /\ t # u /\ pc[u] = "acquire" /\ waited[u] > 0 /\ op[u].path = op[t].path
    /\ Held(t) = {file_key(op[t].path)} /\ DOMAIN memory_locks = {file_key(op[t].path)}

\* two paths that lead to the same file
SameFile(p, q) == resolved(p) = resolved(q)

\* C14: path canonicalization.  Two threads whose calls name the same file, in
\* whatever spellings, use the same registry key, and so are never both inside
\* the write section of that file.
C14_SpellingsShareMutex ==
  \A t, u \in Threads :
    /\ t # u /\ pc[t] \notin {"idle", "return"} /\ pc[u] \notin {"idle", "return"}
    /\ SameFile(op[t].path, op[u].path)
    => /\ file_key(op[t].path) = file_key(op[u].path)
       /\ ~(InMutation(t) /\ InMutation(u))

\* C15: temp-file cleanup.  When a safe_json_write or safe_json_update has failed
\* at serialization or at the rename, its except clause has run and the call is
\* about to release the mutex and return, the temp file of its path is not on disk.
C15_NoTempLeftOnFailure ==
  \A t \in Threads :
    InCall(t, {"write", "update"}) /\ pc[t] = "finally" /\ exc[t] \in WriteFailure
      => fs[resolved(temp_file(op[t].path))] = Missing

\* in the caller's own critical section of a file_lock scope
InOwnBody(t) == InCall(t, {"lock"}) /\ pc[t] = "body"

\* inside a call of the service, the caller's own critical section apart
Pending(t) == pc[t] \notin {"idle", "return"} /\ ~InOwnBody(t)

\* the call has returned or raised, or the acquisition has handed the scope to
\* the caller
Settled(t) == pc[t] = "return" \/ InOwnBody(t)

\* C16: every operation terminates.  A safe_json_read, safe_json_write or
\* safe_json_update that has been entered returns; a file_lock acquisition reaches
\* the body of its scope or ends with an error, and a scope that is being left is
\* left.  This holds when the owner of the mutex stays in its scope for ever and
\* when every attempt on the advisory lock finds it busy: the time a call spends
\* waiting for the mutex and polling the advisory lock never exceeds the timeout.
C16_EveryOperationTerminates ==
  /\ \A t \in Threads : Pending(t) ~> Settled(t)
  /\ [](\A t \in Threads : waited[t] <= TimeoutTicks)

\* one thread sits in its scope, having polled the busy advisory lock until the
\* budget was used up, and the write of the other has given the mutex up and returned
C16_Witness ==
  \E t, u \in Threads :
    /\ InCall(t, {"lock"}) /\ pc[t] = "body" /\ sys[t] = "degraded" /\ waited[t] = TimeoutTicks
    /\ InCall(u, {"write", "update"}) /\ pc[u] = "return" /\ TimedOut(u)

\* what the transform of a call makes of the empty list
OfEmptyList(t) == update_func(op[t].arg, PyList(<<>>))

\* C17: update on a path with no file.  A safe_json_update that found no file at
\* its path carries, from its read to its rename, the result of its transform
\* applied to the empty list; its rename creates the file with exactly that
\* result as content, and the call returns True.
C17_UpdateCreatesFromEmptyList ==
  /\ [](\A t \in Threads :
          /\ InCall(t, {"update"}) /\ pc[t] \in {"open", "dump", "dump2", "replace"}
          /\ fs[resolved(op[t].path)] = Missing
          => OfEmptyList(t) = <<"ok", data[t]>>)
  /\ [][\A t \in Threads :
          /\ InCall(t, {"update"}) /\ pc[t] = "replace" /\ pc'[t] = "finally"
          /\ fs[resolved(op[t].path)] = Missing
          => /\ fs'[resolved(op[t].path)] = Doc(ToJson(OfEmptyList(t)[2]))
             /\ ret'[t] = Return(PyBool(TRUE))]_vars

\* an update is about to create the missing file: its temp file holds the one
\* element its transform appended to the empty list
C17_Witness ==
  \E t \in Threads :
    /\ InCall(t, {"update"}) /\ pc[t] = "replace" /\ fs[resolved(op[t].path)] = Missing
    /\ fs[resolved(temp_file(op[t].path))] = Doc(JArr(<<ToJson(op[t].arg[2])>>))

\* C18: the temp file is touched by the owner of the mutex only.  A step of a
\* safe_json_write or safe_json_update call that creates, writes, renames or
\* deletes the temp file of its path is taken while the call owns the path's
\* mutex, and so the rename of a call never finds its temp file gone.
C18_TempTouchedByOwnerOnly ==
  /\ [][\A t \in Threads :
          /\ InCall(t, {"write", "update"}) /\ pc'[t] # pc[t]
          /\ fs'[resolved(temp_file(op[t].path))] # fs[resolved(temp_file(op[t].path))]
          => TheLock(t).owner = t]_vars
  /\ [](\A t \in Threads : InCall(t, {"write", "update"}) => exc[t] # "FileNotFoundError")

\* C19: temp-file paths do not collide.  Two calls in flight on different targets
\* have different temp files, so they are never both writing or renaming one temp
\* file; and the temp file of a call is not its target.
C19_TempPathsDistinct ==
  \A t, u \in Threads :
    /\ InCall(t, {"write", "update"}) /\ pc[t] \notin {"idle", "return"}
    /\ InCall(u, {"write", "update"}) /\ pc[u] \notin {"idle", "return"}
    => /\ temp_file(op[t].path) # op[t].path
       /\ op[t].path # op[u].path
            => /\ temp_file(op[t].path) # temp_file(op[u].path)
               /\ ~(InMutation(t) /\ InMutation(u))

\* C20: mutations of classes.json are serialized.  Once creer_classe has returned
\* successfully and a supprimer_classe of another class that ran alongside it has
\* returned, the class that was created is in classes.json.
C20_CreatedClassNotLost ==
  /\ InCall(Creator, {"update"}) /\ ReturnedTrue(Creator)
  /\ InCall(Deleter, {"supprimer"}) /\ pc[Deleter] = "return"
  /\ op[Deleter].arg # op[Creator].arg[2][2][PyStr("id")]
  => ToJson(op[Creator].arg[2]) \in Elements(op[Creator].path)

\* C21: write and update take a full guard.  While a safe_json_write or
\* safe_json_update reads or replaces its target it owns the path's mutex and has
\* made its attempt on the advisory lock of the target (which it then holds, or
\* goes on without).
C21_WriteUpdateTakeFullGuard ==
  \A t \in Threads :
    InReadModifyWrite(t) \/ InMutation(t)
      => TheLock(t).owner = t /\ sys[t] \in {"held", "degraded"}

\* the guard of t still has its advisory lock or its open handle
HoldsFile(t) == sys[t] # "none" \/ file_handle[t]

\* C22: release order.  On leaving a file_lock scope the advisory lock is released
\* first, then the handle is closed, then the mutex is released: as long as the
\* guard of a thread has its advisory lock or its open handle the thread owns the
\* mutex of the path and no other thread has acquired it, the handle is closed
\* only after the release of the advisory lock was attempted and with the mutex
\* kept, and the mutex is given up only with the handle closed and no advisory
\* lock left.
C22_ReleaseOrder ==
  /\ [](\A t \in Threads :
          HoldsFile(t)
            => /\ TheLock(t).owner = t /\ lock_acquired[t]
               /\ \A u \in Threads \ {t} :
                    file_key(op[u].path) = file_key(op[t].path) => ~lock_acquired[u])
  /\ [][\A t \in Threads :
          /\ file_handle[t] /\ ~file_handle'[t]
               => pc[t] = "fl_close" /\ memory_locks' = memory_locks
          /\ sys[t] = "held" /\ sys'[t] = "none" => file_handle[t]
          /\ lock_acquired[t] /\ TheLock(t).owner = t
             /\ memory_locks'[file_key(op[t].path)].owner # t
               => ~HoldsFile(t)]_vars

\* the handle of a scope has been closed and its mutex not yet released, while
\* the other thread has been waiting for that mutex
C22_Witness ==
  \E t, u \in Threads :
    /\ t # u /\ pc[t] = "fl_release" /\ TheLock(t).owner = t
    /\ pc[u] = "acquire" /\ waited[u] > 0

\* how far the guard of a file_lock scope has come: waiting for the mutex (Idle),
\* mutex taken (MemoryHeld), advisory lock taken or given up (SystemHeld,
\* SystemDegraded), on its way out, gone (Released)
GuardRank(t) ==
  CASE pc[t] = "acquire" -> 0
    [] pc[t] \in {"fl_open", "fl_syslock"} -> 1
    [] pc[t] = "body" -> 2
    [] pc[t] \in {"fl_exit", "fl_close", "fl_release"} -> 3
    [] pc[t] = "return" -> 4
    [] OTHER -> 5

Guarded(t) == InCall(t, {"read", "lock"}) /\ pc[t] # "idle"

\* C23: guard lifecycle.  A guard goes from Idle to MemoryHeld, from there to
\* SystemHeld or SystemDegraded, and from there to Released, leaving early only by
\* a failure (timeout in Idle, the file not opened in MemoryHeld); it never goes
\* back, and a released guard holds nothing and does nothing more.  The advisory
\* lock is attempted and held only by a guard that owns the mutex of its path.  A
\* guard whose wait for the mutex timed out owns no mutex, has no handle and no
\* advisory lock, and its steps leave the files as they are.
C23_GuardLifecycle ==
  /\ [](\A t \in Threads :
          Guarded(t)
            => /\ GuardRank(t) \in {1, 2} => TheLock(t).owner = t
               /\ pc[t] = "fl_syslock" \/ sys[t] # "none"
                    => TheLock(t).owner = t /\ lock_acquired[t] /\ file_handle[t]
               /\ pc[t] = "body" => sys[t] \in {"held", "degraded"}
               /\ GuardRank(t) < 2 => sys[t] = "none"
               /\ pc[t] = "return"
                    => ~lock_acquired[t] /\ ~file_handle[t] /\ sys[t] = "none"
                       /\ TheLock(t).owner # t
               /\ TimedOut(t)
                    => /\ GuardRank(t) \in {3, 4} /\ TheLock(t).owner # t
                       /\ ~lock_acquired[t] /\ ~file_handle[t] /\ sys[t] = "none")
  /\ [][\A t \in Threads :
          Guarded(t) /\ pc'[t] # pc[t]
            => /\ GuardRank(t) = 0 => pc'[t] \in {"fl_open", "fl_exit"}
               /\ GuardRank(t) = 1 => pc'[t] \in {"fl_syslock", "body", "fl_exit"}
               /\ GuardRank(t) = 2 => pc'[t] = "fl_exit"
               /\ GuardRank(t) = 3 => GuardRank(t)' \in {3, 4}
               /\ GuardRank(t) = 4 => pc'[t] = "idle" /\ op'[t] = NoCall
               /\ pc'[t] = "body" => pc[t] = "fl_syslock"
               /\ TimedOut(t)' /\ pc[t] # "return" => GuardRank(t) \in {0, 3} /\ fs' = fs]_vars

\* a guard has timed out waiting for the mutex and is gone, while the guard of the
\* other thread is in its critical section with the advisory lock
C23_Witness ==
  \E t, u \in Threads :
    /\ Guarded(t) /\ pc[t] = "return" /\ TimedOut(t)
    /\ Guarded(u) /\ pc[u] = "body" /\ sys[u] = "held"

\* C24: polling for the advisory lock.  When the only thing an attempt can meet is
\* a lock that another process holds, a guard gives the advisory lock up only
\* with its budget (the timeout less the wait for the mutex) used up.
C24_DegradesOnlyWhenBudgetExhausted ==
  \A t \in Threads : sys[t] = "degraded" => waited[t] >= TimeoutTicks

\* between the acquisition of the path's mutex and its release, in any of the
\* operations
InCritical(t) ==
  \/ InScope(t)
  \/ InCall(t, {"read", "lock"}) /\ pc[t] \in {"fl_exit", "fl_close", "fl_release"}
       /\ lock_acquired[t]
  \/ InReadModifyWrite(t) \/ InMutation(t)

Parsing(t) == InCall(t, {"read"}) /\ pc[t] = "body"

\* C25: reads are serialized behind the mutex of the path.  While a
\* safe_json_read is about to parse the file, no other thread is inside the
\* critical section of a read, a write, an update or a file_lock scope on the
\* same path.
C25_ReadSerialized ==
  \A t \in Threads :
    Parsing(t)
      => \A u \in Threads \ {t} :
           InCritical(u) => file_key(op[u].path) # file_key(op[t].path)

\* a read is about to parse while a write or an update of the same path has been
\* waiting for the mutex
C25_Witness ==
  \E t, u \in Threads :
    /\ Parsing(t)
    /\ InCall(u, {"write", "update"}) /\ pc[u] = "acquire" /\ waited[u] > 0
    /\ file_key(op[u].path) = file_key(op[t].path)

\* C26: the counters are incremented under synchronization.  With threads that
\* open scopes on paths of their own, none of which times out or fails before
\* its increment, once all threads are done the acquired counter is the number
\* of scopes that were opened.
C26_AcquiredCountsEveryScope ==
  (\A t \in Threads : pc[t] = "idle")
    => lock_stats["acquired"] = nops[1] + nops[2]

\* C27: the timeouts counter counts the acquisitions that timed out waiting for
\* the mutex.  The counter changes only in a step in which a thread's wait for
\* the mutex ends with a timeout, and then by one.
C27_TimeoutsCountMutexTimeouts ==
  [][lock_stats'["timeouts"] # lock_stats["timeouts"]
       => /\ lock_stats'["timeouts"] = lock_stats["timeouts"] + 1
          /\ \E t \in Threads : pc[t] = "acquire" /\ ~TimedOut(t) /\ TimedOut(t)']_vars

\* a safe_json_write or safe_json_update whose wait for the mutex timed out
TimedOutMutation(t) == InCall(t, {"write", "update"}) /\ TimedOut(t)

\* C28: the release of a timed-out write or update.  A safe_json_write or
\* safe_json_update that did not get the mutex within its timeout leaves through
\* its finally block, whose release changes no mutex: the thread that owns the
\* mutex of the path keeps it, with its hold as it was, and any thread in the
\* write section owns the mutex of its path.
C28_TimedOutReleaseKeepsOwner ==
  /\ [](\A u \in Threads : InMutation(u) => TheLock(u) = [owner |-> u, count |-> 1])
  /\ [][\A t \in Threads :
          TimedOutMutation(t) /\ pc'[t] # pc[t]
            => /\ memory_locks' = memory_locks
               /\ pc'[t] = "return" => pc[t] = "finally"]_vars

\* a write or update has timed out and left through its finally block while the
\* other thread is still in its write section, owning the mutex
C28_Witness ==
  \E t, u \in Threads :
    /\ TimedOutMutation(t) /\ pc[t] = "return"
    /\ InMutation(u) /\ file_key(op[u].path) = file_key(op[t].path)
    /\ TheLock(u).owner = u

\* in a call made from inside a critical section the thread already owns
Nested(t) == "outer" \in DOMAIN op[t]

\* C29: reentrancy.  A thread that owns the mutex of a path (in a file_lock scope
\* or in the transform of an update) and calls read, write, update or file_lock
\* on the same path from there never waits for the mutex and never times out on
\* it: the acquisition is open to it at once, and it owns the mutex throughout,
\* the other threads staying out of the critical section.  When the inner call
\* returns the thread still owns the mutex, with the one hold of its outer scope.
C29_Reentrant ==
  /\ [](\A t \in Threads :
          Nested(t)
            => /\ ~TimedOut(t)
               /\ TheLock(t).owner = t /\ TheLock(t).count \in {1, 2}
               /\ pc[t] = "acquire" => can_acquire(TheLock(t), t) /\ waited[t] = 0
               /\ InCritical(t) => TheLock(t).count = 2
               /\ \A u \in Threads \ {t} :
                    InCritical(u) => file_key(op[u].path) # file_key(op[t].path))
  /\ [][\A t \in Threads :
          Nested(t) /\ ~Nested(t)'
            => /\ pc[t] = "return" /\ pc'[t] \in {"body", "u_apply"}
               /\ memory_locks'[file_key(op'[t].path)] = [owner |-> t, count |-> 1]]_vars

\* a write made from inside a file_lock scope has returned True and released its
\* own hold, while the other thread has been waiting for the mutex
C29_Witness ==
  \E t, u \in Threads :
    /\ Nested(t) /\ InCall(t, {"write"}) /\ ReturnedTrue(t)
    /\ op[t].outer.op.kind = "lock" /\ TheLock(t) = [owner |-> t, count |-> 1]
    /\ t # u /\ pc[u] = "acquire" /\ waited[u] > 0

\* C30: a file_lock scope changes no file.  No step of a thread in a direct
\* file_lock scope changes the contents or the existence of any file: a path
\* with no file before the scope has none after it.
C30_ScopeLeavesFilesAlone ==
  [][\A t \in Threads : InCall(t, {"lock"}) /\ pc'[t] # pc[t] => fs' = fs]_vars

====
